---- MODULE Spec2Model ----
(***************************************************************************)
(* WASAPI loopback capture (apps/desktop/native/wasapi-loopback).          *)
(*                                                                         *)
(* Two execution contexts: the caller (the JavaScript thread that invokes  *)
(* the N-API methods of WasapiLoopback, one call at a time) and the        *)
(* capture thread created by AudioCapture::Start.  They share the          *)
(* accumulation buffer m_audioBuffer (guarded by m_bufferMutex) and the    *)
(* atomic flag m_isCapturing.  The audio session (IAudioClient,            *)
(* IAudioCaptureClient) and the file system are the environment: every     *)
(* call into them succeeds or fails nondeterministically.                  *)
(*                                                                         *)
(* A float sample is the rational q / FloatDen; the model holds q.         *)
(* The sample rates used make the resampling ratio a dyadic rational, so   *)
(* the double arithmetic of the resampler is exact and is modelled by      *)
(* integer arithmetic.                                                     *)
(*                                                                         *)
(* Specifications: Spec is the whole program from construction; FairSpec   *)
(* adds the scheduling of the capture thread and of Stop; HistSpec is the  *)
(* initialized program with the histories of retrieved, appended and       *)
(* exported samples recorded; EncSpec runs the encoding half of SaveToWav  *)
(* on arbitrary snapshots and NormSpec the conversion block of             *)
(* CaptureThread on arbitrary float packets.                               *)
(***************************************************************************)
EXTENDS Integers, Sequences, FiniteSets, TLC

\* ---------------------------------------------------------------- bounds
MaxFrames == 1          \* frames per packet offered by the session
MaxBuf    == 2          \* samples the accumulation buffer may hold
MaxRun    == 4          \* samples recorded in the history of one capture run
FloatDen  == 4          \* a raw float sample is q / FloatDen
RawVals   == {-6, 2}    \* raw values q carried by packets (-1.5 and 0.5 as floats)
TargetRates == {16000}   \* targetSampleRate arguments (16000 is the default)

Null == "null"

\* Value of pkt while the capture thread holds no packet.
NoPacket == [numFramesAvailable |-> -1, data |-> <<>>, silent |-> FALSE]

\* The destination file before any export, and after an export whose unchecked
\* writes did not all go through (a WavOf record is a completely written file).
NoFile == [state |-> "absent"]

PartialFile == [state |-> "partial"]

\* ---------------------------------------------------------------- formats
\* WAVEFORMATEX as returned by IAudioClient::GetMixFormat.  sub is the
\* SubFormat of a WAVE_FORMAT_EXTENSIBLE descriptor ("-" otherwise).
MixFormats ==
  { [wFormatTag |-> "IEEE_FLOAT", sub |-> "-",     wBitsPerSample |-> 32, nChannels |-> 2, nSamplesPerSec |-> 48000],
    [wFormatTag |-> "EXTENSIBLE", sub |-> "FLOAT", wBitsPerSample |-> 32, nChannels |-> 1, nSamplesPerSec |-> 48000],
    [wFormatTag |-> "PCM",        sub |-> "-",     wBitsPerSample |-> 16, nChannels |-> 2, nSamplesPerSec |-> 48000],
    [wFormatTag |-> "PCM",        sub |-> "-",     wBitsPerSample |-> 24, nChannels |-> 2, nSamplesPerSec |-> 48000],
    [wFormatTag |-> "EXTENSIBLE", sub |-> "PCM",   wBitsPerSample |-> 24, nChannels |-> 2, nSamplesPerSec |-> 48000] }

\* ---------------------------------------------------------------- arithmetic
\* C++ integer division and double -> integer conversion truncate toward zero.
TruncDiv(a, b) == IF a >= 0 THEN a \div b ELSE -((-a) \div b)

\* (int16_t) conversion of an integer value.
ToInt16(x) == ((x + 32768) % 65536) - 32768

\* audio_capture.cpp: clamp to [-1.0, 1.0], scale by 32767.0f, cast.
FloatToInt16_NoClamp(q) == ToInt16(TruncDiv(q * 32767, FloatDen))

FloatToInt16(q) ==
  LET c1 == IF q > FloatDen THEN FloatDen ELSE q
      c2 == IF c1 < -FloatDen THEN -FloatDen ELSE c1
  IN  ToInt16(TruncDiv(c2 * 32767, FloatDen))

\* The conversion block of CaptureThread: the int16 samples built from a
\* packet of the given raw data under wave format fmt; <<>> when neither
\* branch is taken.
Normalize_DropLast(fmt, data) ==
  IF fmt.wFormatTag = "IEEE_FLOAT" \/ fmt.wFormatTag = "EXTENSIBLE"
    THEN [i \in 1..(Len(data) - 1) |-> FloatToInt16(data[i])]
    ELSE IF fmt.wBitsPerSample = 16
           THEN [i \in 1..(Len(data) - 1) |-> ToInt16(data[i])]
           ELSE <<>>

Normalize(fmt, data) ==
  IF fmt.wFormatTag = "IEEE_FLOAT" \/ fmt.wFormatTag = "EXTENSIBLE"
    THEN [i \in 1..Len(data) |-> FloatToInt16(data[i])]
    ELSE IF fmt.wBitsPerSample = 16
           THEN [i \in 1..Len(data) |-> ToInt16(data[i])]
           ELSE <<>>

\* The condition under which CaptureThread invokes the callback.
Delivers_IgnoreSilent(cb, fmt, p) ==
  /\ cb # "unset"
  /\ p.numFramesAvailable > 0
  /\ Normalize(fmt, p.data) # <<>>

Delivers(cb, fmt, p) ==
  /\ cb # "unset"
  /\ p.numFramesAvailable > 0
  /\ Normalize(fmt, p.data) # <<>>
  /\ ~p.silent

\* Stereo to mono, SaveToWav.
Downmix_Floor(s, channels) ==
  IF channels = 2
    THEN [i \in 1..(Len(s) \div 2) |-> ToInt16((s[2*i - 1] + s[2*i]) \div 2)]
    ELSE s

Downmix(s, channels) ==
  IF channels = 2
    THEN [i \in 1..(Len(s) \div 2) |-> ToInt16(TruncDiv(s[2*i - 1] + s[2*i], 2))]
    ELSE s

\* Linear-interpolation resampler, SaveToWav.  srcIndex = i * src / tgt,
\* idx its integer part, rem / tgt its fractional part.
Resample_RoundUp(mono, src, tgt) ==
  IF src # tgt
    THEN LET n       == Len(mono)
             newSize == (n * tgt + src - 1) \div src
             At(i)   == LET idx == (i * src) \div tgt
                            rem == (i * src) % tgt
                        IN  IF idx + 1 < n
                              THEN ToInt16(TruncDiv(mono[idx + 1] * (tgt - rem) + mono[idx + 2] * rem, tgt))
                              ELSE mono[idx + 1]
         IN  [k \in 1..newSize |-> At(k - 1)]
    ELSE mono

Resample(mono, src, tgt) ==
  IF src # tgt
    THEN LET n       == Len(mono)
             newSize == (n * tgt) \div src
             At(i)   == LET idx == (i * src) \div tgt
                            rem == (i * src) % tgt
                        IN  IF idx + 1 < n
                              THEN ToInt16(TruncDiv(mono[idx + 1] * (tgt - rem) + mono[idx + 2] * rem, tgt))
                              ELSE mono[idx + 1]
         IN  [k \in 1..newSize |-> At(k - 1)]
    ELSE mono

\* The 44-byte header and the data chunk written by SaveToWav (headerBytes
\* adds up the sizes of the header's writes).  The uint32 fields hold values
\* far below 2^32 here (positive rates, short buffers).
WavOf_WholeFile(resampled, rate) ==
  LET dataSize   == Len(resampled) * 2
      sampleRate == rate
  IN  [ headerBytes   |-> 4 + 4 + 4 + 4 + 4 + 2 + 2 + 4 + 4 + 2 + 2 + 4 + 4,
        fileSize      |-> 44 + dataSize,
        fmtChunkSize  |-> 16,
        audioFormat   |-> 1,
        numChannels   |-> 1,
        sampleRate    |-> sampleRate,
        byteRate      |-> sampleRate * 1 * 2,
        blockAlign    |-> 2,
        bitsPerSample |-> 16,
        dataSize      |-> dataSize,
        data          |-> resampled ]

WavOf(resampled, rate) ==
  LET dataSize   == Len(resampled) * 2
      sampleRate == rate
  IN  [ headerBytes   |-> 4 + 4 + 4 + 4 + 4 + 2 + 2 + 4 + 4 + 2 + 2 + 4 + 4,
        fileSize      |-> 36 + dataSize,
        fmtChunkSize  |-> 16,
        audioFormat   |-> 1,
        numChannels   |-> 1,
        sampleRate    |-> sampleRate,
        byteRate      |-> sampleRate * 1 * 2,
        blockAlign    |-> 2,
        bitsPerSample |-> 16,
        dataSize      |-> dataSize,
        data          |-> resampled ]

\* ---------------------------------------------------------------- state
VARIABLES
  \* AudioCapture
  m_audioClient,        \* TRUE iff the pointer is non-null
  m_captureClient,      \* TRUE iff the pointer is non-null
  m_waveFormat,         \* a format of MixFormats, or Null
  m_isCapturing,
  m_callback,           \* "unset" or "append" (the lambda of WasapiLoopback::Start)
  m_sampleRate,
  m_channels,
  m_lastError,
  \* the audio session behind m_audioClient
  deviceFormat,         \* the mix format of the default render device
  clientInitialized,    \* IAudioClient::Initialize succeeded on it
  sessStreaming,        \* IAudioClient::Start succeeded and Stop was not called since
  \* WasapiLoopback
  m_bufferMutex,        \* "free", "caller" or "capture"
  m_audioBuffer,
  m_capturedSampleRate,
  m_capturedChannels,
  \* the caller
  cpc,                  \* position of the caller
  samples,              \* SaveToWav: the snapshot
  sourceSampleRate,
  sourceChannels,
  targetSampleRate,
  retVal,               \* what the last call that returned a value returned
  everInitOk,           \* Initialize has returned true at least once
  \* the capture thread
  tpc,                  \* position of the capture thread, "none" when m_captureThread is not joinable
  hr,                   \* CaptureThread: the last HRESULT, "ok" or "failed"
  pkt,                  \* the packet held between GetBuffer and ReleaseBuffer, or NoPacket
  cbSamples,            \* the vector passed to the callback
  \* the file system
  wavFile,              \* content of the destination file: NoFile, PartialFile or a WavOf record
  \* history (not program state; kept only when h_on)
  h_on,                 \* histories are recorded in this behaviour
  h_stream,             \* samples of the packets retrieved for the callback since the thread was created
  h_sinceClear,         \* the same, since the last m_audioBuffer.clear()
  h_appended,           \* samples inserted into m_audioBuffer since the clear of the last Start
  h_snapshots           \* the snapshots of the exports since the clear of the last Start, concatenated

vars == << deviceFormat, m_audioClient, m_captureClient, m_waveFormat, m_isCapturing, m_callback,
           m_sampleRate, m_channels, m_lastError, clientInitialized, sessStreaming,
           m_bufferMutex, m_audioBuffer, m_capturedSampleRate, m_capturedChannels,
           cpc, samples, sourceSampleRate, sourceChannels, targetSampleRate,
           retVal, everInitOk,
           tpc, hr, pkt, cbSamples, wavFile,
           h_on, h_stream, h_sinceClear, h_appended, h_snapshots >>

captureVars == << deviceFormat, m_audioClient, m_captureClient, m_waveFormat, m_isCapturing, m_callback,
                  m_sampleRate, m_channels, m_lastError, clientInitialized, sessStreaming >>
bufferVars  == << m_bufferMutex, m_audioBuffer, m_capturedSampleRate, m_capturedChannels >>
saveVars    == << samples, sourceSampleRate, sourceChannels, targetSampleRate >>
threadVars  == << tpc, hr, pkt, cbSamples >>
fileVars    == << wavFile >>
callerVars  == << cpc, saveVars, retVal, everInitOk >>
histVars    == << h_on, h_stream, h_sinceClear, h_appended, h_snapshots >>

ThreadAlive == tpc \notin {"none", "exited", "crashed"}

\* No history is recorded.
NoHistory ==
  /\ h_on = FALSE
  /\ h_stream = <<>>
  /\ h_sinceClear = <<>>
  /\ h_appended = <<>>
  /\ h_snapshots = <<>>

\* h extended by s when histories are recorded.
Recorded(h, s) == IF h_on THEN h \o s ELSE h

Init ==
  /\ NoHistory
  /\ deviceFormat \in MixFormats
  /\ m_audioClient = FALSE
  /\ m_captureClient = FALSE
  /\ m_waveFormat = Null
  /\ m_isCapturing = FALSE
  /\ m_callback = "unset"
  /\ m_sampleRate = 0
  /\ m_channels = 0
  /\ m_lastError = ""
  /\ clientInitialized = FALSE
  /\ sessStreaming = FALSE
  /\ m_bufferMutex = "free"
  /\ m_audioBuffer = <<>>
  /\ m_capturedSampleRate = 0
  /\ m_capturedChannels = 0
  /\ cpc = "idle"
  /\ samples = <<>>
  /\ sourceSampleRate = 0
  /\ sourceChannels = 0
  /\ targetSampleRate = 0
  /\ retVal = "none"
  /\ everInitOk = FALSE
  /\ tpc = "none"
  /\ hr = "ok"
  /\ pkt = NoPacket
  /\ cbSamples = <<>>
  /\ wavFile = NoFile

\* ---------------------------------------------------------------- Initialize
\* The message InitializeWASAPI leaves when its step k fails.
InitError(k) ==
  CASE k = 1 -> "Failed to create device enumerator"
    [] k = 2 -> "Failed to get default audio endpoint"
    [] k = 3 -> "Failed to activate audio client"
    [] k = 4 -> "Failed to get mix format"
    [] k = 5 -> "Failed to initialize audio client for loopback. Error: hr"
    [] k = 6 -> "Failed to get buffer size"
    [] k = 7 -> "Failed to get capture client"

\* WasapiLoopback::Initialize -> AudioCapture::InitializeWASAPI.  failAt is
\* the first of the seven session calls that fails (0: none); a failing COM
\* call stores a null pointer in its out-parameter.  GetMixFormat yields the
\* format of the device, which stays the same throughout.  The caller
\* initializes, and retries, on an object that holds no audio client yet (a
\* later call would overwrite the interfaces of the earlier one unreleased).
Initialize(failAt) ==
  /\ cpc = "idle"
  /\ tpc # "crashed"
  /\ ~m_audioClient
  /\ m_audioClient' = IF failAt \in {1, 2} THEN m_audioClient ELSE (failAt # 3)
  /\ clientInitialized' = IF failAt \in {1, 2} THEN clientInitialized
                          ELSE (failAt \notin {3, 4, 5})
  /\ sessStreaming' = IF failAt \in {1, 2} THEN sessStreaming ELSE FALSE
  /\ m_waveFormat' = IF failAt \in {1, 2, 3} THEN m_waveFormat
                     ELSE IF failAt = 4 THEN Null ELSE deviceFormat
  /\ m_sampleRate' = IF failAt \in {1, 2, 3, 4} THEN m_sampleRate ELSE deviceFormat.nSamplesPerSec
  /\ m_channels' = IF failAt \in {1, 2, 3, 4} THEN m_channels ELSE deviceFormat.nChannels
  /\ m_captureClient' = IF failAt \in 1..6 THEN m_captureClient ELSE (failAt = 0)
  /\ m_lastError' = IF failAt = 0 THEN m_lastError ELSE InitError(failAt)
  /\ retVal' = IF failAt = 0 THEN "true" ELSE "false"
  /\ everInitOk' = (everInitOk \/ failAt = 0)
  /\ UNCHANGED << deviceFormat, m_isCapturing, m_callback, bufferVars, cpc, saveVars,
                  threadVars, fileVars >>
  /\ UNCHANGED histVars

\* ---------------------------------------------------------------- m_bufferMutex
\* std::lock_guard<std::mutex> construction blocks until the mutex is free.
CanLock_NoWait(who) == TRUE

CanLock(who) == m_bufferMutex = "free"

\* ---------------------------------------------------------------- Start
\* WasapiLoopback::Start, "Clear previous buffer": the lock_guard is taken.
StartLock ==
  /\ cpc = "idle"
  /\ tpc # "crashed"
  /\ CanLock("caller")
  /\ m_bufferMutex' = "caller"
  /\ cpc' = "st_clear"
  /\ UNCHANGED << captureVars, m_audioBuffer, m_capturedSampleRate, m_capturedChannels,
                  saveVars, retVal, everInitOk, threadVars, fileVars >>
  /\ UNCHANGED histVars

\* m_audioBuffer.clear() and the end of the guarded block.
StartClear ==
  /\ cpc = "st_clear"
  /\ m_audioBuffer' = <<>>
  /\ m_bufferMutex' = "free"
  /\ cpc' = "st_capture"
  /\ UNCHANGED << captureVars, m_capturedSampleRate, m_capturedChannels,
                  saveVars, retVal, everInitOk, threadVars, fileVars >>
  /\ h_sinceClear' = <<>>
  /\ h_appended' = <<>>
  /\ h_snapshots' = <<>>
  /\ UNCHANGED << h_on, h_stream >>

\* AudioCapture::Start(callback) and the return of WasapiLoopback::Start.
\* clientStartOk is the outcome of m_audioClient->Start() on an initialized
\* client; on a client that was never initialized the call fails.
StartCapture(clientStartOk) ==
  /\ cpc = "st_capture"
  /\ cpc' = "idle"
  /\ IF m_isCapturing
       THEN /\ m_lastError' = "Already capturing"
            /\ retVal' = "false"
            /\ UNCHANGED << m_callback, m_isCapturing, sessStreaming, threadVars >>
       ELSE IF ~m_audioClient
         THEN /\ m_lastError' = "Audio client not initialized"
              /\ retVal' = "false"
              /\ UNCHANGED << m_callback, m_isCapturing, sessStreaming, threadVars >>
         ELSE /\ m_callback' = "append"
              /\ IF clientInitialized /\ clientStartOk
                   THEN /\ m_isCapturing' = TRUE
                        /\ sessStreaming' = TRUE
                        /\ tpc' = "loop"
                        /\ hr' = "ok"
                        /\ retVal' = "true"
                        /\ UNCHANGED << m_lastError, pkt, cbSamples >>
                   ELSE /\ m_isCapturing' = FALSE
                        /\ m_lastError' = "Failed to start audio client"
                        /\ retVal' = "false"
                        /\ UNCHANGED << sessStreaming, threadVars >>
  /\ UNCHANGED << deviceFormat, m_audioClient, m_captureClient, m_waveFormat, m_sampleRate,
                  m_channels, clientInitialized, bufferVars, saveVars, everInitOk, fileVars >>
  /\ h_stream' = IF ~m_isCapturing /\ m_audioClient /\ clientInitialized /\ clientStartOk
                  THEN <<>> ELSE h_stream
  /\ UNCHANGED << h_on, h_sinceClear, h_appended, h_snapshots >>

\* ---------------------------------------------------------------- Stop
\* AudioCapture::Stop up to the join: the early return, or the flag is reset.
StopBegin ==
  /\ cpc = "idle"
  /\ tpc # "crashed"
  /\ IF ~m_isCapturing
       THEN /\ cpc' = "idle"
            /\ retVal' = "undefined"
            /\ UNCHANGED m_isCapturing
       ELSE /\ m_isCapturing' = FALSE
            /\ cpc' = "stop_join"
            /\ UNCHANGED retVal
  /\ UNCHANGED << deviceFormat, m_audioClient, m_captureClient, m_waveFormat, m_callback,
                  m_sampleRate, m_channels, m_lastError, clientInitialized, sessStreaming,
                  bufferVars, saveVars, everInitOk, threadVars, fileVars >>
  /\ UNCHANGED histVars

\* m_captureThread.join() returns once the thread function has returned.
JoinReturns_NoWait == TRUE

JoinReturns == tpc = "exited"

\* if (joinable()) join();
StopJoin ==
  /\ cpc = "stop_join"
  /\ tpc # "crashed"
  /\ IF tpc # "none"
       THEN /\ JoinReturns
            /\ IF tpc = "exited"
                 THEN tpc' = "none" /\ hr' = "ok"
                 ELSE UNCHANGED << tpc, hr >>
       ELSE UNCHANGED << tpc, hr >>
  /\ cpc' = "stop_client"
  /\ UNCHANGED << captureVars, bufferVars, saveVars, retVal, everInitOk,
                  pkt, cbSamples, fileVars >>
  /\ UNCHANGED histVars

\* if (m_audioClient) m_audioClient->Stop(); and the return.
StopClient ==
  /\ cpc = "stop_client"
  /\ tpc # "crashed"
  /\ sessStreaming' = IF m_audioClient THEN FALSE ELSE sessStreaming
  /\ cpc' = "idle"
  /\ retVal' = "undefined"
  /\ UNCHANGED << deviceFormat, m_audioClient, m_captureClient, m_waveFormat, m_isCapturing,
                  m_callback, m_sampleRate, m_channels, m_lastError, clientInitialized,
                  bufferVars, saveVars, everInitOk, threadVars, fileVars >>
  /\ UNCHANGED histVars

\* ---------------------------------------------------------------- SaveToWav
\* Arguments read (a string path, a target rate), the lock_guard of the snapshot
\* block is taken.
SaveLock(rate) ==
  /\ cpc = "idle"
  /\ tpc # "crashed"
  /\ CanLock("caller")
  /\ m_bufferMutex' = "caller"
  /\ targetSampleRate' = rate
  /\ cpc' = "sv_snap"
  /\ UNCHANGED << captureVars, m_audioBuffer, m_capturedSampleRate, m_capturedChannels,
                  samples, sourceSampleRate, sourceChannels, retVal, everInitOk,
                  threadVars, fileVars >>
  /\ UNCHANGED histVars

\* The closing brace of the snapshot block destroys its lock_guard: the mutex
\* held by holder becomes free.
SnapshotBlockEnd_KeepsLock(holder) == holder

SnapshotBlockEnd(holder) == "free"

\* m_audioBuffer.clear(), "Clear buffer after saving".
ClearedAfterSaving_Kept(buf) == buf

ClearedAfterSaving(buf) == <<>>

\* The guarded block: copy, read the tag, clear; the lock_guard is released.
SaveSnapshot ==
  /\ cpc = "sv_snap"
  /\ samples' = m_audioBuffer
  /\ sourceSampleRate' = m_capturedSampleRate
  /\ sourceChannels' = m_capturedChannels
  /\ m_audioBuffer' = ClearedAfterSaving(m_audioBuffer)
  /\ m_bufferMutex' = SnapshotBlockEnd(m_bufferMutex)
  /\ cpc' = "sv_encode"
  /\ UNCHANGED << captureVars, m_capturedSampleRate, m_capturedChannels, targetSampleRate,
                  retVal, everInitOk, threadVars, fileVars >>
  /\ h_snapshots' = Recorded(h_snapshots, m_audioBuffer)
  /\ h_sinceClear' = <<>>
  /\ UNCHANGED << h_on, h_stream, h_appended >>

\* if (samples.empty()) return false;
SnapshotEmpty_Never(s) == FALSE

SnapshotEmpty(s) == s = <<>>

\* The rest of SaveToWav, outside the lock: the empty check, downmix,
\* resample, the ofstream and the writes.  openOk: the ofstream opened (which
\* truncates the file); writeOk: the unchecked writes went through.
SaveEncode(openOk, writeOk) ==
  /\ cpc = "sv_encode"
  /\ tpc # "crashed"
  /\ cpc' = "idle"
  /\ IF SnapshotEmpty(samples)
       THEN /\ retVal' = "false"
            /\ UNCHANGED fileVars
       ELSE IF ~openOk
              THEN /\ retVal' = "false"
                   /\ UNCHANGED wavFile
              ELSE /\ retVal' = "true"
                   /\ wavFile' = IF writeOk
                                   THEN WavOf(Resample(Downmix(samples, sourceChannels),
                                                       sourceSampleRate, targetSampleRate),
                                              targetSampleRate)
                                   ELSE PartialFile
  /\ samples' = <<>>
  /\ sourceSampleRate' = 0
  /\ sourceChannels' = 0
  /\ targetSampleRate' = 0
  /\ UNCHANGED << captureVars, bufferVars, everInitOk, threadVars >>
  /\ UNCHANGED histVars

\* ---------------------------------------------------------------- CaptureThread
\* while (m_isCapturing)
TLoop ==
  /\ tpc = "loop"
  /\ tpc' = IF m_isCapturing THEN "poll" ELSE "exited"
  /\ UNCHANGED << captureVars, bufferVars, callerVars, hr, pkt, cbSamples, fileVars >>
  /\ UNCHANGED histVars

\* GetNextPacketSize at the head of the outer loop; failure breaks out of it.
\* A null m_captureClient is dereferenced: the process dies.  packetLength
\* (len) is only read by the inner loop condition that follows.
TPoll(ok, len) ==
  /\ tpc = "poll"
  /\ IF ~m_captureClient
       THEN tpc' = "crashed" /\ UNCHANGED hr
       ELSE IF ~ok
         THEN hr' = "failed" /\ tpc' = "exited"
         ELSE /\ hr' = "ok"
              /\ tpc' = IF len # 0 THEN "getbuf" ELSE "sleep"
  /\ UNCHANGED << captureVars, bufferVars, callerVars, pkt, cbSamples, fileVars >>
  /\ UNCHANGED histVars

\* GetBuffer; failure breaks out of the inner loop.  The session hands out a
\* packet that will be appended only while the buffer has room for it.
TGetBuffer(ok, p) ==
  /\ tpc = "getbuf"
  /\ IF ~ok
       THEN hr' = "failed" /\ tpc' = "sleep" /\ UNCHANGED pkt
       ELSE /\ Delivers(m_callback, m_waveFormat, p)
                 => Len(m_audioBuffer) + Len(p.data) <= MaxBuf
            /\ hr' = "ok"
            /\ pkt' = p
            /\ tpc' = "process"
  /\ UNCHANGED << captureVars, bufferVars, callerVars, cbSamples, fileVars >>
  /\ (h_on /\ ok /\ Delivers(m_callback, m_waveFormat, p))
       => Len(h_stream) + Len(p.data) <= MaxRun
  /\ LET got == IF ok /\ Delivers(m_callback, m_waveFormat, p)
                  THEN Normalize(m_waveFormat, p.data) ELSE <<>>
     IN  /\ h_stream' = Recorded(h_stream, got)
         /\ h_sinceClear' = Recorded(h_sinceClear, got)
  /\ UNCHANGED << h_on, h_appended, h_snapshots >>

\* "Process audio data": conversion, and the decision to call m_callback.
TProcess ==
  /\ tpc = "process"
  /\ IF Delivers(m_callback, m_waveFormat, pkt)
       THEN cbSamples' = Normalize(m_waveFormat, pkt.data) /\ tpc' = "cb_lock"
       ELSE UNCHANGED cbSamples /\ tpc' = "release"
  /\ UNCHANGED << captureVars, bufferVars, callerVars, hr, pkt, fileVars >>
  /\ UNCHANGED histVars

\* The callback registered by WasapiLoopback::Start: the lock_guard is taken,
TCallbackLock ==
  /\ tpc = "cb_lock"
  /\ CanLock("capture")
  /\ m_bufferMutex' = "capture"
  /\ tpc' = "cb_insert"
  /\ UNCHANGED << captureVars, m_audioBuffer, m_capturedSampleRate, m_capturedChannels,
                  callerVars, hr, pkt, cbSamples, fileVars >>
  /\ UNCHANGED histVars

\* the samples are inserted at the end of m_audioBuffer,
InsertAtEnd_AtBegin(buf, s) == s \o buf

InsertAtEnd(buf, s) == buf \o s

TCallbackInsert ==
  /\ tpc = "cb_insert"
  /\ m_audioBuffer' = InsertAtEnd(m_audioBuffer, cbSamples)
  /\ tpc' = "cb_tag"
  /\ UNCHANGED << captureVars, m_bufferMutex, m_capturedSampleRate, m_capturedChannels,
                  callerVars, hr, pkt, cbSamples, fileVars >>
  /\ h_appended' = Recorded(h_appended, cbSamples)
  /\ UNCHANGED << h_on, h_stream, h_sinceClear, h_snapshots >>

\* the tag is written and the lock_guard released.
TCallbackTag ==
  /\ tpc = "cb_tag"
  /\ m_capturedSampleRate' = m_sampleRate
  /\ m_capturedChannels' = m_channels
  /\ m_bufferMutex' = "free"
  /\ cbSamples' = <<>>
  /\ tpc' = "release"
  /\ UNCHANGED << captureVars, m_audioBuffer, callerVars, hr, pkt, fileVars >>
  /\ UNCHANGED histVars

\* ReleaseBuffer; failure breaks out of the inner loop.
TRelease(ok) ==
  /\ tpc = "release"
  /\ pkt' = NoPacket
  /\ hr' = IF ok THEN "ok" ELSE "failed"
  /\ tpc' = IF ok THEN "poll2" ELSE "sleep"
  /\ UNCHANGED << captureVars, bufferVars, callerVars, cbSamples, fileVars >>
  /\ UNCHANGED histVars

\* GetNextPacketSize at the foot of the inner loop; failure breaks out of it.
TPoll2(ok, len) ==
  /\ tpc = "poll2"
  /\ IF ~ok
       THEN hr' = "failed" /\ tpc' = "sleep"
       ELSE /\ hr' = "ok"
            /\ tpc' = IF len # 0 THEN "getbuf" ELSE "sleep"
  /\ UNCHANGED << captureVars, bufferVars, callerVars, pkt, cbSamples, fileVars >>
  /\ UNCHANGED histVars

\* Sleep(10), then the loop condition again.
TSleep ==
  /\ tpc = "sleep"
  /\ tpc' = IF m_isCapturing THEN "poll" ELSE "exited"
  /\ UNCHANGED << captureVars, bufferVars, callerVars, hr, pkt, cbSamples, fileVars >>
  /\ UNCHANGED histVars

\* ---------------------------------------------------------------- packets
\* What GetBuffer can hand out: numFramesAvailable frames of m_channels raw
\* values each, and the AUDCLNT_BUFFERFLAGS_SILENT flag.
Packets ==
  { [numFramesAvailable |-> f, data |-> d, silent |-> sl] :
      f \in 0..MaxFrames,
      d \in UNION { [1..n -> RawVals] : n \in 0..(MaxFrames * m_channels) },
      sl \in BOOLEAN }

WellFormed(p) == Len(p.data) = p.numFramesAvailable * m_channels

\* ---------------------------------------------------------------- specification
Next ==
  \/ \E failAt \in 0..7 : Initialize(failAt)
  \/ StartLock
  \/ StartClear
  \/ \E ok \in BOOLEAN : StartCapture(ok)
  \/ StopBegin
  \/ StopJoin
  \/ StopClient
  \/ \E rate \in TargetRates : SaveLock(rate)
  \/ SaveSnapshot
  \/ \E openOk \in BOOLEAN, writeOk \in BOOLEAN : SaveEncode(openOk, writeOk)
  \/ TLoop
  \/ \E ok \in BOOLEAN, len \in 0..MaxFrames : TPoll(ok, len)
  \/ \E ok \in BOOLEAN : \E p \in Packets : WellFormed(p) /\ TGetBuffer(ok, p)
  \/ TProcess
  \/ TCallbackLock
  \/ TCallbackInsert
  \/ TCallbackTag
  \/ \E ok \in BOOLEAN : TRelease(ok)
  \/ \E ok \in BOOLEAN, len \in 0..MaxFrames : TPoll2(ok, len)
  \/ TSleep

Spec == Init /\ [][Next]_vars

\* ---------------------------------------------------------------- claims
IsPrefix(a, b) == Len(a) <= Len(b) /\ SubSeq(b, 1, Len(a)) = a

\* C1: an export of a non-empty snapshot that fails at the ofstream leaves in
\* the buffer the samples the snapshot took (followed by whatever the capture
\* thread appended meanwhile).
C1_FailedExportKeepsBuffer ==
  [][ (cpc = "sv_encode" /\ cpc' = "idle" /\ samples # <<>> /\ retVal' = "false")
        => IsPrefix(samples, m_audioBuffer') ]_vars

\* C2: no step of a start() made while capturing changes the buffer, the
\* callback or the capture thread, and the call returns false.
C2_StartWhileRunningChangesNothing ==
  [][ (m_isCapturing /\ cpc' # cpc
        /\ ((cpc = "idle" /\ cpc' = "st_clear") \/ cpc \in {"st_clear", "st_capture"}))
        => /\ m_audioBuffer' = m_audioBuffer
           /\ m_callback' = m_callback
           /\ tpc' = tpc
           /\ (cpc = "st_capture" => retVal' = "false") ]_vars

\* C3: whenever m_isCapturing is false and the caller is not waiting in the join
\* of stop(), no capture thread exists (so nothing can append once stop() has
\* returned, until a start() sets the flag again); and the stream of the audio
\* client is running for as long as the thread has not been joined.
C3_StopJoinsThread ==
  /\ (~m_isCapturing /\ cpc # "stop_join") => tpc = "none"
  /\ tpc # "none" => sessStreaming

\* A stop() issued during a capture run that had appended samples has returned.
C3_Witness ==
  /\ cpc = "idle" /\ ~m_isCapturing /\ tpc = "none"
  /\ ~sessStreaming /\ m_callback = "append" /\ m_audioBuffer # <<>>

\* C4: as long as no Initialize call has returned true, no capture thread
\* exists and the state is Idle.
C4_StartNeedsInitialize ==
  ~everInitOk => (tpc = "none" /\ ~m_isCapturing)

\* C5: once GetBuffer, ReleaseBuffer or GetNextPacketSize has failed, the capture
\* thread polls no packet size and retrieves no packet any more.
C5_FaultEndsLoop ==
  [][ hr = "failed" => ~(tpc \in {"poll", "poll2", "getbuf"} /\ tpc' # tpc) ]_vars

\* The messages Initialize and Start leave in m_lastError, and the empty one.
OtherMessages ==
  {""} \cup { InitError(k) : k \in 1..7 }
       \cup { "Already capturing", "Audio client not initialized", "Failed to start audio client" }

\* C6: when an export returns false, and when a call of the capture thread
\* fails, m_lastError holds a message of that failure afterwards.
C6_FailureSetsLastError ==
  [][ (\/ (cpc = "sv_encode" /\ cpc' = "idle" /\ retVal' = "false")
       \/ (tpc' # tpc /\ hr' = "failed"))
        => m_lastError' \notin OtherMessages ]_vars

\* C7: a packet flagged silent is held only before its processing and before
\* its release: it never enters the callback, so the thread appends nothing
\* for it, and the thread leaves it through ReleaseBuffer.
C7_SilentPacketNotAppended ==
  (pkt # NoPacket /\ pkt.silent) => tpc \in {"process", "release"}

\* A silent packet with frames of a supported format has been processed and
\* awaits its release, next to samples captured before it.
C7_Witness ==
  /\ tpc = "release" /\ pkt # NoPacket /\ pkt.silent
  /\ pkt.numFramesAvailable > 0 /\ Normalize(m_waveFormat, pkt.data) # <<>>
  /\ m_audioBuffer # <<>> /\ m_callback = "append"

\* C8: the step of an export that finds its snapshot empty returns false and
\* leaves the destination as it was (the ofstream is never constructed).
C8_EmptyExportFails ==
  [][ (cpc = "sv_encode" /\ cpc' = "idle" /\ samples = <<>>)
        => (retVal' = "false" /\ wavFile' = wavFile) ]_vars

\* An export has taken an empty snapshot during a capture run, no file exists.
C8_Witness ==
  cpc = "sv_encode" /\ samples = <<>> /\ m_isCapturing /\ ThreadAlive /\ wavFile = NoFile

\* 32-bit float and 16-bit PCM, plain or behind WAVE_FORMAT_EXTENSIBLE.
IsFloat32(fmt) ==
  /\ fmt.wBitsPerSample = 32
  /\ fmt.wFormatTag = "IEEE_FLOAT" \/ (fmt.wFormatTag = "EXTENSIBLE" /\ fmt.sub = "FLOAT")

IsPcm16(fmt) ==
  /\ fmt.wBitsPerSample = 16
  /\ fmt.wFormatTag = "PCM" \/ (fmt.wFormatTag = "EXTENSIBLE" /\ fmt.sub = "PCM")

\* C9: a packet of a format that is neither 32-bit float nor 16-bit PCM never
\* enters the callback: it is processed, released, and the loop goes on.
C9_UnsupportedFormatDropped ==
  (pkt # NoPacket /\ ~IsFloat32(m_waveFormat) /\ ~IsPcm16(m_waveFormat))
    => tpc \in {"process", "release"}

\* C10: the caller's clear and snapshot-and-clear and the capture thread's
\* append are never inside their guarded blocks together, each holds the mutex
\* while inside, and samples and tag go together: a non-empty buffer seen with
\* the mutex free, and a non-empty snapshot, carry the tag of their samples.
C10_MutualExclusion ==
  /\ ~(cpc \in {"st_clear", "sv_snap"} /\ tpc \in {"cb_insert", "cb_tag"})
  /\ cpc \in {"st_clear", "sv_snap"} => m_bufferMutex = "caller"
  /\ tpc \in {"cb_insert", "cb_tag"} => m_bufferMutex = "capture"
  /\ (m_bufferMutex = "free" /\ m_audioBuffer # <<>>)
       => (m_capturedSampleRate = m_sampleRate /\ m_capturedChannels = m_channels)
  /\ (cpc = "sv_encode" /\ samples # <<>>)
       => (sourceSampleRate = m_sampleRate /\ sourceChannels = m_channels)

\* The capture thread waits for the mutex while an export holds it over a
\* non-empty buffer.
C10_Witness ==
  tpc = "cb_lock" /\ cpc = "sv_snap" /\ m_bufferMutex = "caller" /\ m_audioBuffer # <<>>

\* ================================================================ encoder
\* The encoding half of SaveToWav on its own: the caller stands right after
\* the snapshot block with an arbitrary snapshot of whole frames and its
\* tags, capture is stopped, and SaveEncode runs on it.
MaxEncLen == 6                                \* samples in a snapshot
EncVals == {-50, -3, 100, 32767}              \* int16 sample values of a snapshot
EncChannels == {1, 2, 3}                      \* channel counts of the tag
EncSourceRates == {16000, 24000, 48000}       \* sample rates of the tag

EncSnapshots(ch) ==
  UNION { { s \in [1..n -> EncVals] : n % ch = 0 } : n \in 0..MaxEncLen }

\* AudioCapture after a successful Initialize on a device of mix format fmt,
\* not capturing.
Initialized(fmt) ==
  /\ deviceFormat = fmt
  /\ m_audioClient = TRUE
  /\ m_captureClient = TRUE
  /\ m_waveFormat = fmt
  /\ m_isCapturing = FALSE
  /\ m_sampleRate = fmt.nSamplesPerSec
  /\ m_channels = fmt.nChannels
  /\ m_lastError = ""
  /\ clientInitialized = TRUE
  /\ sessStreaming = FALSE
  /\ everInitOk = TRUE

EncInit ==
  /\ NoHistory
  /\ \E ch \in EncChannels, rate \in EncSourceRates :
        /\ Initialized([wFormatTag |-> "PCM", sub |-> "-", wBitsPerSample |-> 16,
                        nChannels |-> ch, nSamplesPerSec |-> rate])
        /\ samples \in EncSnapshots(ch)
        /\ sourceChannels = ch
        /\ sourceSampleRate = rate
        /\ m_capturedChannels = ch
        /\ m_capturedSampleRate = rate
  /\ targetSampleRate \in TargetRates
  /\ m_callback = "append"
  /\ m_bufferMutex = "free"
  /\ m_audioBuffer = <<>>
  /\ cpc = "sv_encode"
  /\ retVal = "undefined"
  /\ tpc = "none"
  /\ hr = "ok"
  /\ pkt = NoPacket
  /\ cbSamples = <<>>
  /\ wavFile = NoFile

EncNext == \E openOk \in BOOLEAN, writeOk \in BOOLEAN : SaveEncode(openOk, writeOk)

EncSpec == EncInit /\ [][EncNext]_vars

\* A step of SaveToWav that returns true and whose writes all went through.
WritesFile ==
  cpc = "sv_encode" /\ cpc' = "idle" /\ retVal' = "true" /\ wavFile' # PartialFile

Abs(x) == IF x < 0 THEN -x ELSE x

\* m is the integer quotient a / 2 truncated toward zero.
IsHalfTowardZero(m, a) == Abs(a - 2 * m) <= 1 /\ Abs(2 * m) <= Abs(a)

\* C11: an export of a stereo snapshot at the target rate writes, for every
\* frame, (left + right) / 2 truncated toward zero, a value of the int16
\* range ((100, -50) gives 25, (32767, 32767) gives 32767, (-50, -3) gives
\* -26); a snapshot of any other channel count is written unchanged.
C11_DownmixAveragesTowardZero ==
  [][ (WritesFile /\ sourceSampleRate = targetSampleRate)
        => IF sourceChannels = 2
             THEN /\ Len(wavFile'.data) = Len(samples) \div 2
                  /\ \A i \in 1..Len(wavFile'.data) :
                        /\ IsHalfTowardZero(wavFile'.data[i], samples[2*i - 1] + samples[2*i])
                        /\ wavFile'.data[i] \in -32768..32767
                        /\ (samples[2*i - 1] = 100 /\ samples[2*i] = -50) => wavFile'.data[i] = 25
                        /\ (samples[2*i - 1] = 32767 /\ samples[2*i] = 32767)
                              => wavFile'.data[i] = 32767
                        /\ (samples[2*i - 1] = -50 /\ samples[2*i] = -3) => wavFile'.data[i] = -26
             ELSE wavFile'.data = samples ]_vars

\* A stereo snapshot of three frames has been exported at its own rate.
C11_Witness ==
  /\ cpc = "idle" /\ retVal = "true"
  /\ m_capturedChannels = 2 /\ m_capturedSampleRate = 16000
  /\ wavFile # NoFile /\ wavFile # PartialFile
  /\ wavFile.data = << 25, 32767, -26 >>

\* C12: an export from 48000 to 16000 writes floor(n / 3) samples, the k-th
\* of which (from 0) is sample 3k of the mono signal; an export at the
\* source rate writes the mono signal unchanged.
C12_ResampleDecimatesByThree ==
  [][ WritesFile
        => LET mono == Downmix(samples, sourceChannels)
           IN  /\ (sourceSampleRate = 48000 /\ targetSampleRate = 16000)
                     => /\ Len(wavFile'.data) = Len(mono) \div 3
                        /\ \A k \in 1..Len(wavFile'.data) : wavFile'.data[k] = mono[3 * (k - 1) + 1]
               /\ (sourceSampleRate = targetSampleRate) => wavFile'.data = mono ]_vars

\* A mono snapshot of six samples at 48000 has been exported as two samples.
C12_Witness ==
  /\ cpc = "idle" /\ retVal = "true"
  /\ m_capturedChannels = 1 /\ m_capturedSampleRate = 48000
  /\ wavFile # NoFile /\ wavFile # PartialFile
  /\ wavFile.data = << 100, -50 >>

\* C14: the file of an export that wrote N samples at rate R has a 44-byte
\* header with RIFF size 36 + 2N, fmt chunk size 16, format 1 (PCM), one
\* channel, sample rate R, byte rate 2R, block align 2, 16 bits per sample
\* and data size 2N, followed by exactly the N samples.
C14_WavHeaderFields ==
  [][ WritesFile
        => LET N == Len(Resample(Downmix(samples, sourceChannels),
                                 sourceSampleRate, targetSampleRate))
               R == targetSampleRate
           IN  /\ wavFile'.headerBytes = 44
               /\ wavFile'.fileSize = 36 + 2 * N
               /\ wavFile'.fmtChunkSize = 16
               /\ wavFile'.audioFormat = 1
               /\ wavFile'.numChannels = 1
               /\ wavFile'.sampleRate = R
               /\ wavFile'.byteRate = 2 * R
               /\ wavFile'.blockAlign = 2
               /\ wavFile'.bitsPerSample = 16
               /\ wavFile'.dataSize = 2 * N
               /\ Len(wavFile'.data) = N ]_vars

\* A file of two samples has been written.
C14_Witness ==
  /\ cpc = "idle" /\ retVal = "true"
  /\ wavFile # NoFile /\ wavFile # PartialFile
  /\ Len(wavFile.data) = 2 /\ wavFile.fileSize = 40 /\ wavFile.dataSize = 4

\* ================================================================ normalizer
\* The conversion block of CaptureThread on its own: the capture thread of a
\* running capture on a float device stands right after GetBuffer with an
\* arbitrary packet, and takes it to the buffer.
NormVals ==
  { -2 * FloatDen, -FloatDen - 1, -FloatDen, -1, 0, 1, FloatDen,
    FloatDen + FloatDen \div 2, 2 * FloatDen }     \* -2.0 ... 1.5, 2.0 as floats

NormPackets(ch) ==
  { [numFramesAvailable |-> f, data |-> d, silent |-> sl] :
      f \in 1..MaxFrames, d \in UNION { [1..n -> NormVals] : n \in 1..(MaxFrames * ch) },
      sl \in BOOLEAN }

NormInit ==
  /\ NoHistory
  /\ \E fmt \in { f \in MixFormats : f.wBitsPerSample = 32 } :
        /\ deviceFormat = fmt
        /\ m_waveFormat = fmt
        /\ m_sampleRate = fmt.nSamplesPerSec
        /\ m_channels = fmt.nChannels
        /\ pkt \in { p \in NormPackets(fmt.nChannels) :
                        Len(p.data) = p.numFramesAvailable * fmt.nChannels }
  /\ m_audioClient = TRUE
  /\ m_captureClient = TRUE
  /\ m_isCapturing = TRUE
  /\ m_callback = "append"
  /\ m_lastError = ""
  /\ clientInitialized = TRUE
  /\ sessStreaming = TRUE
  /\ everInitOk = TRUE
  /\ m_bufferMutex = "free"
  /\ m_audioBuffer = <<>>
  /\ m_capturedSampleRate = 0
  /\ m_capturedChannels = 0
  /\ cpc = "idle"
  /\ samples = <<>>
  /\ sourceSampleRate = 0
  /\ sourceChannels = 0
  /\ targetSampleRate = 0
  /\ retVal = "true"
  /\ tpc = "process"
  /\ hr = "ok"
  /\ cbSamples = <<>>
  /\ wavFile = NoFile

NormNext == TProcess \/ TCallbackLock \/ TCallbackInsert \/ TCallbackTag

NormSpec == NormInit /\ [][NormNext]_vars

\* r is the int16 conversion of the float q / FloatDen, clamped to [-1, 1]
\* and then multiplied by 32767: the product truncated toward zero.
IsClampedScaled(r, q) ==
  IF q > FloatDen THEN r = 32767
  ELSE IF q < -FloatDen THEN r = -32767
  ELSE /\ Abs(r * FloatDen) <= Abs(q * 32767)
       /\ Abs(q * 32767 - r * FloatDen) < FloatDen
       /\ r \in -32767..32767

\* A step of CaptureThread that converts a packet of a float format.
ConvertsFloat == tpc = "process" /\ tpc' = "cb_lock" /\ IsFloat32(m_waveFormat)

\* C13 as amended: every float sample is clamped to [-1, 1] before it is
\* scaled by 32767 and cast, so that 1.5 yields 32767 and -2.0 yields -32767.
C13_ClampThenScale ==
  [][ ConvertsFloat
        => /\ Len(cbSamples') = Len(pkt.data)
           /\ \A i \in 1..Len(pkt.data) :
                 /\ IsClampedScaled(cbSamples'[i], pkt.data[i])
                 /\ pkt.data[i] = FloatDen + FloatDen \div 2 => cbSamples'[i] = 32767
                 /\ pkt.data[i] = -2 * FloatDen => cbSamples'[i] = -32767 ]_vars

\* C13 as claimed: every float sample is clamped to [-1, 1] before it is
\* scaled by 32767 and cast, so that 1.5 yields 32767 and -2.0 yields -32768.
C13_ClampThenScale_AsClaimed ==
  [][ ConvertsFloat
        => \A i \in 1..Len(pkt.data) :
             /\ pkt.data[i] > FloatDen => cbSamples'[i] = 32767
             /\ pkt.data[i] = FloatDen + FloatDen \div 2 => cbSamples'[i] = 32767
             /\ pkt.data[i] = -2 * FloatDen => cbSamples'[i] = -32768 ]_vars

\* A packet holding the float -2.0 has been converted.
C13_Witness ==
  /\ tpc = "cb_lock" /\ IsFloat32(m_waveFormat)
  /\ \E i \in 1..Len(pkt.data) : pkt.data[i] = -2 * FloatDen /\ cbSamples[i] = -32767

\* ================================================================ claims on Spec
\* C16: while an export is past its snapshot block (downmix, resample,
\* write) it does not hold the buffer mutex, so the capture thread is never
\* kept from appending by it.
C16_EncodeOutsideLock ==
  cpc = "sv_encode" => m_bufferMutex # "caller"

\* The capture thread has appended between the snapshot and the return of a
\* running export.
C16_Witness ==
  /\ cpc = "sv_encode" /\ samples # <<>>
  /\ m_audioBuffer # <<>> /\ m_bufferMutex = "free" /\ tpc = "release"

\* C18: once the capture thread has left its loop, m_isCapturing (what
\* IsCapturing() returns and what Start checks) is false.
C18_FlagFalseAfterThreadExit ==
  tpc = "exited" => ~m_isCapturing

\* C20: the buffer holds whole frames of the device's channel count, which is
\* the tag whenever the capture thread is outside its guarded block, and
\* every non-empty snapshot holds whole frames of its tag.
C20_WholeFrames ==
  /\ m_audioBuffer # <<>>
       => /\ m_channels > 0
          /\ Len(m_audioBuffer) % m_channels = 0
          /\ m_bufferMutex # "capture" => m_capturedChannels = m_channels
  /\ samples # <<>>
       => /\ sourceChannels > 0
          /\ sourceChannels = m_channels
          /\ Len(samples) % sourceChannels = 0

\* A stereo snapshot has been taken while the capture runs.
C20_Witness ==
  /\ cpc = "sv_encode" /\ sourceChannels = 2 /\ Len(samples) = 2
  /\ m_isCapturing /\ ThreadAlive

\* ================================================================ fairness
\* A step of the capture thread.  The thread is an operating-system thread:
\* it is scheduled again and again while it has a step to take.
ThreadStep ==
  \/ TLoop
  \/ \E ok \in BOOLEAN, len \in 0..MaxFrames : TPoll(ok, len)
  \/ \E ok \in BOOLEAN : \E p \in Packets : WellFormed(p) /\ TGetBuffer(ok, p)
  \/ TProcess
  \/ TCallbackLock
  \/ TCallbackInsert
  \/ TCallbackTag
  \/ \E ok \in BOOLEAN : TRelease(ok)
  \/ \E ok \in BOOLEAN, len \in 0..MaxFrames : TPoll2(ok, len)
  \/ TSleep

\* The caller, once inside Stop, goes on as soon as join() lets it.
FairSpec == Spec /\ WF_vars(ThreadStep) /\ WF_vars(StopJoin) /\ WF_vars(StopClient)

\* C17: every stop() that found the capture running (the caller waits in
\* join(), on an object whose capture client exists) returns, and capture is
\* then off.
C17_StopReturns ==
  [] ( (cpc = "stop_join" /\ m_captureClient) => <> (cpc = "idle" /\ ~m_isCapturing) )

\* ================================================================ histories
\* The program from the state a successful Initialize leaves, with the
\* histories recorded; a capture run delivers at most MaxRun samples.  The
\* destination of the exports cannot be opened: the snapshot block, which
\* the histories follow, runs before the ofstream is constructed, and the
\* file plays no part in them.
HistInit ==
  /\ \E fmt \in MixFormats : Initialized(fmt)
  /\ h_on = TRUE
  /\ h_stream = <<>>
  /\ h_sinceClear = <<>>
  /\ h_appended = <<>>
  /\ h_snapshots = <<>>
  /\ m_callback = "unset"
  /\ m_bufferMutex = "free"
  /\ m_audioBuffer = <<>>
  /\ m_capturedSampleRate = 0
  /\ m_capturedChannels = 0
  /\ cpc = "idle"
  /\ samples = <<>>
  /\ sourceSampleRate = 0
  /\ sourceChannels = 0
  /\ targetSampleRate = 0
  /\ retVal = "true"
  /\ tpc = "none"
  /\ hr = "ok"
  /\ pkt = NoPacket
  /\ cbSamples = <<>>
  /\ wavFile = NoFile

HistNext ==
  \/ StartLock
  \/ StartClear
  \/ \E ok \in BOOLEAN : StartCapture(ok)
  \/ StopBegin
  \/ StopJoin
  \/ StopClient
  \/ \E rate \in TargetRates : SaveLock(rate)
  \/ SaveSnapshot
  \/ SaveEncode(FALSE, FALSE)
  \/ ThreadStep

HistSpec == HistInit /\ [][HistNext]_vars

\* The samples of the packet the capture thread has retrieved for the
\* callback and not yet inserted.
Pending ==
  IF tpc = "process" /\ Delivers(m_callback, m_waveFormat, pkt)
    THEN Normalize(m_waveFormat, pkt.data)
    ELSE IF tpc \in {"cb_lock", "cb_insert"} THEN cbSamples ELSE <<>>

IsSuffix(a, b) == Len(a) <= Len(b) /\ SubSeq(b, Len(b) - Len(a) + 1, Len(b)) = a

C19_SnapshotsThenBufferIsAppended ==
  h_on => h_snapshots \o m_audioBuffer = h_appended

\* During one capture run an export has taken a snapshot and the capture
\* thread has appended after it.
C19_Witness ==
  /\ h_on /\ m_isCapturing /\ ThreadAlive
  /\ h_snapshots # <<>> /\ m_audioBuffer # <<>> /\ cpc = "idle"

====
